---- MODULE Spec2Model ----
(***************************************************************************)
(* A model of optimized_datasets/load_data.py: load_data(h5_folder,        *)
(* dataset_file) as a state machine.  One action per statement group of    *)
(* the function: one iteration of the directory scan, the conversion to    *)
(* arrays, the label encoder, the balancer (SMOTE), the scaler, the        *)
(* selector, the one-hot conversion, the dump of the encoder, the return.  *)
(*                                                                         *)
(* Numbers: feature values are integers (one unit of the model is one      *)
(* noise amplitude); a standardized value is kept exactly, as the pair     *)
(* (numerator, variance term) it is the quotient of.                       *)
(* File names are sequences of characters, so that str.endswith is         *)
(* computed on the characters.                                             *)
(* Assumed of the environment: every listed entry that passes the filter   *)
(* can be opened by h5py, the manifest has a 'filename' column, the        *)
(* directory ./nn_training exists, and every extracted vector has at       *)
(* least one entry.                                                        *)
(***************************************************************************)
EXTENDS Integers, Sequences, FiniteSets, TLC

\* ------------------------------------------------------------------ bounds
\* Longest directory listing drawn in any order from ScanFiles.
MaxFiles == 3
\* Longest directory listing drawn (in listing order) from BalFiles.
MaxBalFiles == 7
\* Longest directory listing of a specification that calls load_data twice.
MaxRerunFiles == 2

\* ------------------------------------------------------- program constants
\* SMOTE(random_state=42): k_neighbors keeps its default, 5.
K_NEIGHBORS == 5
\* SelectKBest(f_classif, k=min(100, ...)).
K_BEST == 100
\* feature_length = None
NoLength == -1

\* ------------------------------------------------------------ input values
H5 == <<".", "h", "5">>

\* The value of f.attrs['genre'] of a file without that attribute: the read
\* raises KeyError.
NoAttr == "<no genre attribute>"

\* One value of an extraction result: a number, or something that is no
\* number (a string, a nested list).
Num(v) == [num |-> TRUE, val |-> v]
NaN == [num |-> FALSE, val |-> 0]

Raises == [kind |-> "raise", items |-> <<>>]
SeqOf(items) == [kind |-> "seq", items |-> items]
DictOf(items) == [kind |-> "dict", items |-> items]

File(name, result, genre) == [name |-> name, result |-> result, genre |-> genre]

\* The files a listing is drawn from in any order.
ScanFiles ==
    { File(<<"a">> \o H5, SeqOf(<<Num(1), Num(2)>>), "rock"),
      File(<<"b">> \o H5, SeqOf(<<Num(3)>>), "jazz"),
      File(<<"c">> \o H5, SeqOf(<<Num(4), Num(5), Num(6)>>), "rock"),
      File(<<"d">> \o H5, Raises, "rock"),
      File(<<"e">> \o H5, SeqOf(<<Num(7), Num(8)>>), NoAttr),
      File(<<"f">> \o H5, DictOf(<<Num(9), NaN, Num(10)>>), "blues"),
      File(<<"g">> \o H5, SeqOf(<<Num(11), NaN>>), "jazz"),
      File(<<"a">> \o H5 \o <<".", "b", "a", "k">>, SeqOf(<<Num(12)>>), "rock") }

\* The files of a larger data set, listed in this order.
BalFiles ==
    << File(<<"j", "1">> \o H5, SeqOf(<<Num(20)>>), "jazz"),
       File(<<"r", "1">> \o H5, SeqOf(<<Num(30)>>), "rock"),
       File(<<"j", "2">> \o H5, SeqOf(<<Num(22)>>), "jazz"),
       File(<<"r", "2">> \o H5, SeqOf(<<Num(33)>>), "rock"),
       File(<<"j", "3">> \o H5, SeqOf(<<Num(25)>>), "jazz"),
       File(<<"r", "3">> \o H5, SeqOf(<<Num(37)>>), "rock"),
       File(<<"r", "4">> \o H5, SeqOf(<<Num(40)>>), "rock"),
       File(<<"r", "5">> \o H5, SeqOf(<<Num(44)>>), "rock") >>

Range(s) == {s[i] : i \in 1..Len(s)}

\* The sequences of at most n distinct members of S.
RECURSIVE Arrangements(_, _)
Arrangements(S, n) ==
    IF n = 0 THEN {<<>>}
    ELSE LET P == Arrangements(S, n - 1)
         IN P \cup UNION {{Append(p, f) : f \in S \ Range(p)} :
                          p \in {q \in P : Len(q) = n - 1}}

\* The entries of s at the positions I, in the order of s.
SubListing(s, I) ==
    LET F[k \in 0..Len(s)] ==
            IF k = 0 THEN <<>>
            ELSE IF k \in I THEN Append(F[k - 1], s[k]) ELSE F[k - 1]
    IN F[Len(s)]

BalListings ==
    {SubListing(BalFiles, I) :
        I \in {J \in SUBSET (1..Len(BalFiles)) : Cardinality(J) <= MaxBalFiles}}

\* os.listdir(h5_folder): the names are distinct; the order is the listing's.
Listings == Arrangements(ScanFiles, MaxFiles) \cup BalListings

AllNames ==
    << <<"a">> \o H5, <<"b">> \o H5, <<"c">> \o H5, <<"d">> \o H5,
       <<"e">> \o H5, <<"f">> \o H5, <<"g">> \o H5,
       <<"a">> \o H5 \o <<".", "b", "a", "k">>,
       <<"j", "1">> \o H5, <<"j", "2">> \o H5, <<"j", "3">> \o H5,
       <<"r", "1">> \o H5, <<"r", "2">> \o H5, <<"r", "3">> \o H5,
       <<"r", "4">> \o H5, <<"r", "5">> \o H5 >>

\* df['filename'].tolist() of the manifests drawn.
Manifests ==
    { << <<"a">> \o H5, <<"b">> \o H5, <<"a">> \o H5 \o <<".", "b", "a", "k">> >>,
      AllNames }

\* The draws of np.random.normal(0, 0.05, shape), in noise amplitudes.
NoiseVals == {-1, 1}
\* A state of the generator: the draw for the odd and for the even positions.
NoiseDraws == NoiseVals \X NoiseVals
\* The vector drawn for a feature of the given shape when the generator is at rng.
Normal(rng, shape) == [i \in 1..shape |-> IF i % 2 = 1 THEN rng[1] ELSE rng[2]]

\* The label encoder found on disk before the call.
Stale == <<"<earlier artifact>">>

\* The order of the label strings (np.unique sorts).
GenresSorted == <<"blues", "jazz", "rock">>

\* ------------------------------------------------------------------- state
VARIABLES
    dir,                \* os.listdir(h5_folder): the files, in listing order
    file_list,          \* df['filename'].tolist()
    idx,                \* position of the for loop in dir (next entry to handle)
    features,           \* the accumulator `features`
    labels,             \* the accumulator `labels`
    feature_length,     \* feature_length (NoLength is None)
    classes_,           \* label_encoder.classes_ (<<>> before fit)
    labels_encoded,     \* labels_encoded
    features_resampled, \* features_resampled
    labels_resampled,   \* labels_resampled
    features_scaled,    \* features_scaled
    features_selected,  \* features_selected
    labels_onehot,      \* labels_onehot
    artifact,           \* contents of ./nn_training/label_encoder.pkl
    dumps,              \* number of joblib.dump calls of this call of load_data
    pc,                 \* the statement load_data is at
    history,            \* per handled directory entry: what the loop did with it
    run,                \* which call of load_data this is
    prev                \* what the earlier call returned (<<>> when none)

vars == <<dir, file_list, idx, features, labels, feature_length, classes_,
          labels_encoded, features_resampled, labels_resampled, features_scaled,
          features_selected, labels_onehot, artifact, dumps, pc, history, run, prev>>

\* ------------------------------------------------------- pure functions
\* filename.endswith(suffix)
EndsWith(s, suffix) ==
    /\ Len(s) >= Len(suffix)
    /\ SubSeq(s, Len(s) - Len(suffix) + 1, Len(s)) = suffix

\* (mutant) the manifest test is dropped
InList_any(x, list) == TRUE

\* filename in file_list
InList(x, list) == \E i \in 1..Len(list) : list[i] = x

\* The entry passes both tests of the loop head (lines 44-45).
Whitelisted(f, list) == EndsWith(f.name, H5) /\ InList(f.name, list)

\* extract_features(f): decided by the content of the file.
extract_features(f) == f.result

\* [v for v in d.values() if isinstance(v, (int, float))]
IsNumber(item) == item.num
flatten_dict(items) == SelectSeq(items, IsNumber)

\* (mutant) the conversion accepts any value
AsArrayRaises_never(items) == FALSE

\* np.array(feature, dtype=float) raises on a value that is no number.
AsArrayRaises(items) == \E i \in 1..Len(items) : ~items[i].num
AsArray(items) == [i \in 1..Len(items) |-> items[i].val]

\* (mutant) the length is taken from every file
CanonicalLength_latest(flen, vec) == Len(vec)

\* if feature_length is None: feature_length = len(feature)
CanonicalLength(flen, vec) == IF flen = NoLength THEN Len(vec) ELSE flen

\* (mutant) a long vector keeps its last L entries
PadTruncate_tail(vec, L) ==
    IF Len(vec) < L THEN vec \o [i \in 1..(L - Len(vec)) |-> 0]
    ELSE IF Len(vec) > L THEN SubSeq(vec, Len(vec) - L + 1, Len(vec))
    ELSE vec

\* np.pad(feature, (0, L - len(feature))) / feature[:L] / feature
PadTruncate(vec, L) ==
    IF Len(vec) < L THEN vec \o [i \in 1..(L - Len(vec)) |-> 0]
    ELSE IF Len(vec) > L THEN SubSeq(vec, 1, L)
    ELSE vec

\* feature + np.random.normal(0, 0.05, feature.shape)
Augment(feature, rng) ==
    LET noise == Normal(rng, Len(feature))
    IN [i \in 1..Len(feature) |-> feature[i] + noise[i]]

Outcome(feats, labs, flen, raised) ==
    [features |-> feats, labels |-> labs, feature_length |-> flen, raised |-> raised]

\* The body of the try statement (lines 50-78) on the open file f; `raised`
\* says that the except clause ran.
TryBlock(f, feats, labs, flen, rng) ==
    LET r == extract_features(f)
    IN IF r.kind = "raise" THEN Outcome(feats, labs, flen, TRUE)
       ELSE
       LET flat == IF r.kind = "dict" THEN flatten_dict(r.items) ELSE r.items
       IN IF AsArrayRaises(flat) THEN Outcome(feats, labs, flen, TRUE)
          ELSE
          LET vec == AsArray(flat)
              L == CanonicalLength(flen, vec)
              feature == PadTruncate(vec, L)
              feats1 == Append(feats, feature)
          IN \* features.append(feature) has run when f.attrs['genre'] is read
             IF f.genre = NoAttr THEN Outcome(feats1, labs, L, TRUE)
             ELSE Outcome(Append(feats1, Augment(feature, rng)),
                          labs \o <<f.genre, f.genre>>, L, FALSE)

\* LabelEncoder.fit: classes_ = np.unique(labels), sorted.
InLabels(labs) == {labs[i] : i \in 1..Len(labs)}
fit(labs) == LET Seen(g) == g \in InLabels(labs) IN SelectSeq(GenresSorted, Seen)

IndexOf(s, x) == CHOOSE i \in 1..Len(s) : s[i] = x

\* LabelEncoder.transform: the position of each label in classes_, from 0.
transform(classes, labs) == [i \in 1..Len(labs) |-> IndexOf(classes, labs[i]) - 1]

\* ------------------------------------------------------------- the balancer
\* The rows of X whose label in y is c, in order (y may be shorter than X
\* only in a call that fit_resample rejects).
RowsOf(X, y, c) ==
    LET F[k \in 0..Len(y)] ==
            IF k = 0 THEN <<>>
            ELSE IF y[k] = c THEN Append(F[k - 1], X[k]) ELSE F[k - 1]
    IN F[Len(y)]

CountOf(y, c) == Cardinality({i \in 1..Len(y) : y[i] = c})
ClassIds(y) == {y[i] : i \in 1..Len(y)}
MajorityCount(y) ==
    CHOOSE n \in {CountOf(y, c) : c \in ClassIds(y)} :
        \A c \in ClassIds(y) : CountOf(y, c) <= n

\* sampling_strategy 'auto' (not majority): what each class lacks to reach the
\* count of the largest class.
Deficit(y, c) == MajorityCount(y) - CountOf(y, c)

\* (mutant) the neighbour search never raises
NeighborsRaise_never(count) == FALSE

\* NearestNeighbors(n_neighbors = k_neighbors + 1).kneighbors on the rows of a
\* class raises when the class has fewer rows than n_neighbors.
NeighborsRaise(count) == count < K_NEIGHBORS + 1

\* smote.fit_resample(X, y) raises: the input is empty, X and y differ in
\* length, y holds a single class, or a class that has to be oversampled
\* is too small for the neighbour search.
FitResampleRaises(X, y) ==
    \/ Len(X) = 0
    \/ Len(X) # Len(y)
    \/ Cardinality(ClassIds(y)) <= 1
    \/ \E c \in ClassIds(y) : Deficit(y, c) > 0 /\ NeighborsRaise(CountOf(y, c))

\* The n synthetic rows of one class.  RandomState(42) fixes the row each
\* new sample starts from and the step towards its neighbour; the model
\* takes the rows of the class in turn, at step 0.
Synthetic(Xc, n) == [j \in 1..n |-> Xc[((j - 1) % Len(Xc)) + 1]]

\* fit_resample: the input, then for each class in ascending order the
\* synthetic rows that bring it to the majority count.
RECURSIVE SmoteRows(_, _, _, _)
SmoteRows(X, y, c, last) ==
    IF c > last THEN <<>>
    ELSE (IF c \in ClassIds(y)
          THEN Synthetic(RowsOf(X, y, c), Deficit(y, c)) ELSE <<>>)
         \o SmoteRows(X, y, c + 1, last)

RECURSIVE SmoteLabels(_, _, _)
SmoteLabels(y, c, last) ==
    IF c > last THEN <<>>
    ELSE (IF c \in ClassIds(y)
          THEN [j \in 1..Deficit(y, c) |-> c] ELSE <<>>)
         \o SmoteLabels(y, c + 1, last)

fit_resample(X, y) ==
    [X |-> X \o SmoteRows(X, y, 0, Len(GenresSorted) - 1),
     y |-> y \o SmoteLabels(y, 0, Len(GenresSorted) - 1)]

\* ------------------------------------------------- scaler, selector, one-hot
ColSum(X, c) ==
    LET F[k \in 0..Len(X)] == IF k = 0 THEN 0 ELSE F[k - 1] + X[k][c]
    IN F[Len(X)]
ColSumSq(X, c) ==
    LET F[k \in 0..Len(X)] == IF k = 0 THEN 0 ELSE F[k - 1] + X[k][c] * X[k][c]
    IN F[Len(X)]

\* StandardScaler().fit_transform(X): (x - mean) / std per column, kept as
\* num / sqrt(var) with num = n*x - sum and var = n*sumsq - sum^2 (a column
\* of variance 0 is divided by 1: its entries are 0, and num is 0).
StandardScale(X) ==
    [r \in 1..Len(X) |->
        [c \in 1..Len(X[r]) |->
            [num |-> Len(X) * X[r][c] - ColSum(X, c),
             var |-> Len(X) * ColSumSq(X, c) - ColSum(X, c) * ColSum(X, c)]]]

Min(a, b) == IF a <= b THEN a ELSE b

\* SelectKBest(f_classif, k).fit_transform(X, y): the k columns of the best
\* F scores, in column order.  With k = number of columns every column is
\* kept; no listing of the model has more than K_BEST columns.
SelectKBest(X, k) == [r \in 1..Len(X) |-> SubSeq(X[r], 1, k)]

MaxOf(y) == CHOOSE m \in ClassIds(y) : \A c \in ClassIds(y) : c <= m

\* (mutant) one column too many
to_categorical_wide(y) ==
    [i \in 1..Len(y) |-> [c \in 1..(MaxOf(y) + 2) |-> IF c = y[i] + 1 THEN 1 ELSE 0]]

\* keras to_categorical(y): num_classes = max(y) + 1; row i is 1 at y[i].
to_categorical(y) ==
    [i \in 1..Len(y) |-> [c \in 1..(MaxOf(y) + 1) |-> IF c = y[i] + 1 THEN 1 ELSE 0]]

\* ----------------------------------------------------------------- actions
Handled(opened, raised, feats, labs, flen) ==
    [opened |-> opened, raised |-> raised, nfeat |-> Len(feats),
     nlab |-> Len(labs), flen |-> flen]

InitWith(listings) ==
    /\ dir \in listings
    /\ file_list \in Manifests
    /\ idx = 1
    /\ features = <<>>
    /\ labels = <<>>
    /\ feature_length = NoLength
    /\ classes_ = <<>>
    /\ labels_encoded = <<>>
    /\ features_resampled = <<>>
    /\ labels_resampled = <<>>
    /\ features_scaled = <<>>
    /\ features_selected = <<>>
    /\ labels_onehot = <<>>
    /\ artifact = Stale
    /\ dumps = 0
    /\ pc = "scan"
    /\ history = <<>>
    /\ run = 1
    /\ prev = <<>>

Init == InitWith(Listings)

AfterScan == <<classes_, labels_encoded, features_resampled, labels_resampled,
               features_scaled, features_selected, labels_onehot, artifact, dumps>>
Inputs == <<dir, file_list, run, prev>>
Scanned == <<idx, features, labels, feature_length, history>>

\* Line 44 is false: the entry has no .h5 suffix; the loop goes on.
SkipOther ==
    /\ pc = "scan" /\ idx <= Len(dir)
    /\ ~EndsWith(dir[idx].name, H5)
    /\ idx' = idx + 1
    /\ history' = Append(history, Handled(FALSE, FALSE, features, labels, feature_length))
    /\ UNCHANGED <<features, labels, feature_length, pc, Inputs, AfterScan>>

\* Lines 45-46: a .h5 entry that is not in file_list; continue.
SkipUnlisted ==
    /\ pc = "scan" /\ idx <= Len(dir)
    /\ EndsWith(dir[idx].name, H5)
    /\ ~InList(dir[idx].name, file_list)
    /\ idx' = idx + 1
    /\ history' = Append(history, Handled(FALSE, FALSE, features, labels, feature_length))
    /\ UNCHANGED <<features, labels, feature_length, pc, Inputs, AfterScan>>

\* Lines 47-81: the file is opened and the try statement runs; an exception
\* is printed and the loop goes on.
ProcessEntry ==
    /\ pc = "scan" /\ idx <= Len(dir)
    /\ Whitelisted(dir[idx], file_list)
    /\ \E rng \in NoiseDraws :
         LET o == TryBlock(dir[idx], features, labels, feature_length, rng)
         IN /\ features' = o.features
            /\ labels' = o.labels
            /\ feature_length' = o.feature_length
            /\ history' = Append(history,
                  Handled(TRUE, o.raised, o.features, o.labels, o.feature_length))
    /\ idx' = idx + 1
    /\ UNCHANGED <<pc, Inputs, AfterScan>>

\* Lines 83-84: the loop is over; the accumulators become arrays.
ToArrays ==
    /\ pc = "scan" /\ idx > Len(dir)
    /\ pc' = "encode"
    /\ UNCHANGED <<Inputs, Scanned, AfterScan>>

\* Lines 87-88.
EncodeLabels ==
    /\ pc = "encode"
    /\ classes_' = fit(labels)
    /\ labels_encoded' = transform(fit(labels), labels)
    /\ pc' = "balance"
    /\ UNCHANGED <<Inputs, Scanned, features_resampled, labels_resampled,
                   features_scaled, features_selected, labels_onehot, artifact, dumps>>

\* Lines 91-93.
Balance ==
    /\ pc = "balance"
    /\ ~FitResampleRaises(features, labels_encoded)
    /\ features_resampled' = fit_resample(features, labels_encoded).X
    /\ labels_resampled' = fit_resample(features, labels_encoded).y
    /\ pc' = "scale"
    /\ UNCHANGED <<Inputs, Scanned, classes_, labels_encoded, features_scaled,
                   features_selected, labels_onehot, artifact, dumps>>

\* Lines 91-93 raise; nothing in load_data catches it.
BalanceRaises ==
    /\ pc = "balance"
    /\ FitResampleRaises(features, labels_encoded)
    /\ pc' = "fatal"
    /\ UNCHANGED <<Inputs, Scanned, AfterScan>>

\* Lines 96-97.
Scale ==
    /\ pc = "scale"
    /\ features_scaled' = StandardScale(features_resampled)
    /\ pc' = "select"
    /\ UNCHANGED <<Inputs, Scanned, classes_, labels_encoded, features_resampled,
                   labels_resampled, features_selected, labels_onehot, artifact, dumps>>

\* Lines 100-102.
SelectFeatures ==
    /\ pc = "select"
    /\ Len(features_scaled[1]) <= K_BEST
    /\ features_selected' =
          SelectKBest(features_scaled, Min(K_BEST, Len(features_scaled[1])))
    /\ pc' = "onehot"
    /\ UNCHANGED <<Inputs, Scanned, classes_, labels_encoded, features_resampled,
                   labels_resampled, features_scaled, labels_onehot, artifact, dumps>>

\* Line 105.
OneHot ==
    /\ pc = "onehot"
    /\ labels_onehot' = to_categorical(labels_resampled)
    /\ pc' = "dump"
    /\ UNCHANGED <<Inputs, Scanned, classes_, labels_encoded, features_resampled,
                   labels_resampled, features_scaled, features_selected, artifact, dumps>>

\* (mutant) the dump is left out
SaveEncoder_skipped ==
    /\ pc = "dump"
    /\ pc' = "return"
    /\ UNCHANGED <<dir, file_list, run, prev, idx, features, labels, feature_length,
                   history, classes_, labels_encoded, features_resampled,
                   labels_resampled, features_scaled, features_selected,
                   labels_onehot, artifact, dumps>>

\* Line 108: joblib.dump(label_encoder, './nn_training/label_encoder.pkl').
SaveEncoder ==
    /\ pc = "dump"
    /\ artifact' = classes_
    /\ dumps' = dumps + 1
    /\ pc' = "return"
    /\ UNCHANGED <<Inputs, Scanned, classes_, labels_encoded, features_resampled,
                   labels_resampled, features_scaled, features_selected, labels_onehot>>

\* Line 110: return features_selected, labels_onehot.
Return ==
    /\ pc = "return"
    /\ pc' = "done"
    /\ UNCHANGED <<Inputs, Scanned, AfterScan>>

Next ==
    \/ SkipOther
    \/ SkipUnlisted
    \/ ProcessEntry
    \/ ToArrays
    \/ EncodeLabels
    \/ Balance
    \/ BalanceRaises
    \/ Scale
    \/ SelectFeatures
    \/ OneHot
    \/ SaveEncoder
    \/ Return

\* One call of load_data.
Spec == Init /\ [][Next]_vars

\* The caller calls load_data again on the same folder and manifest; the
\* locals of the call start afresh, the file on disk stays.
CallAgain ==
    /\ pc = "done" /\ run = 1
    /\ run' = 2
    /\ prev' = [features |-> features_selected, labels |-> labels_onehot,
                classes |-> classes_]
    /\ idx' = 1
    /\ features' = <<>>
    /\ labels' = <<>>
    /\ feature_length' = NoLength
    /\ classes_' = <<>>
    /\ labels_encoded' = <<>>
    /\ features_resampled' = <<>>
    /\ labels_resampled' = <<>>
    /\ features_scaled' = <<>>
    /\ features_selected' = <<>>
    /\ labels_onehot' = <<>>
    /\ dumps' = 0
    /\ pc' = "scan"
    /\ history' = <<>>
    /\ UNCHANGED <<dir, file_list, artifact>>

InitTwice == InitWith(Arrangements(ScanFiles, MaxRerunFiles))

NextTwice == Next \/ CallAgain

\* Two calls of load_data on the same input.
SpecTwice == InitTwice /\ [][NextTwice]_vars

\* ------------------------------------------------ what the claims speak of
\* (stated on the input and on the record of the scan, not with the
\* operators of the model above)

\* The name ends with ".h5".
HasH5Suffix(name) ==
    /\ Len(name) >= 3
    /\ name[Len(name) - 2] = "."
    /\ name[Len(name) - 1] = "h"
    /\ name[Len(name)] = "5"

\* The name is a row of the manifest's filename column.
Listed(name) == name \in {file_list[i] : i \in 1..Len(file_list)}

\* Extraction and conversion to a numeric vector succeed on the file.
Extractable(f) ==
    /\ f.result.kind # "raise"
    /\ f.result.kind = "seq" => \A i \in 1..Len(f.result.items) : f.result.items[i].num

\* The numeric vector extracted from an extractable file.
RawVector(f) ==
    LET it == f.result.items
        F[k \in 0..Len(it)] ==
            IF k = 0 THEN <<>>
            ELSE IF it[k].num THEN Append(F[k - 1], it[k].val) ELSE F[k - 1]
    IN F[Len(it)]

\* Entries handled so far, and the counts before entry k was handled.
HandledEntries == 1..Len(history)
FeatBefore(k) == IF k = 1 THEN 0 ELSE history[k - 1].nfeat
LabBefore(k) == IF k = 1 THEN 0 ELSE history[k - 1].nlab
LenBefore(k) == IF k = 1 THEN NoLength ELSE history[k - 1].flen

\* The entry was opened and its try block ended without an exception.
Accepted(k) == history[k].opened /\ ~history[k].raised

ScanOver == pc # "scan"
Balanced == pc \in {"scale", "select", "onehot", "dump", "return", "done"}

\* ------------------------------------------------------------------ claims

\* C1: at every stage the number of feature rows equals the number of label
\* rows: after each directory entry the loop has handled (accepted, filtered
\* out, or skipped by the except clause), in the arrays handed to the label
\* encoder and to the balancer, after the balancer, and in the returned pair.
C1_RowsAligned ==
    /\ \A k \in HandledEntries : history[k].nfeat = history[k].nlab
    /\ pc \in {"encode", "balance"} => Len(features) = Len(labels)
    /\ pc = "balance" => Len(features) = Len(labels_encoded)
    /\ Balanced => Len(features_resampled) = Len(labels_resampled)
    /\ pc = "done" => Len(features_selected) = Len(labels_onehot)

\* The alignment that the code does keep: of the balanced arrays and of the
\* returned pair.
C1_ReturnedAligned ==
    /\ Balanced => Len(features_resampled) = Len(labels_resampled)
    /\ pc = "done" => Len(features_selected) = Len(labels_onehot)

\* C2: every accepted file adds exactly two rows to both accumulators, the
\* normalized original and then one twin that differs from it by a noise draw
\* in every position, both with the label of the file; hence, before
\* balancing, each accumulator has twice as many rows as there are accepted
\* files and every label occurs an even number of times.
C2_TwoRowsPerAccepted ==
    /\ \A k \in HandledEntries :
         Accepted(k) =>
           /\ history[k].nfeat = FeatBefore(k) + 2
           /\ history[k].nlab = LabBefore(k) + 2
           /\ labels[LabBefore(k) + 1] = dir[k].genre
           /\ labels[LabBefore(k) + 2] = dir[k].genre
           /\ LET orig == features[FeatBefore(k) + 1]
                  twin == features[FeatBefore(k) + 2]
              IN /\ Len(twin) = Len(orig)
                 /\ \A i \in 1..Len(orig) : twin[i] - orig[i] \in NoiseVals
    /\ Len(features) = 2 * Cardinality({k \in HandledEntries : Accepted(k)})
    /\ Len(labels) = 2 * Cardinality({k \in HandledEntries : Accepted(k)})
    /\ \A g \in {labels[i] : i \in 1..Len(labels)} :
         Cardinality({i \in 1..Len(labels) : labels[i] = g}) % 2 = 0

\* C3: a directory entry is opened and passed to the extractor exactly when
\* its name ends with ".h5" and is in the manifest's filename column; an
\* entry that is not opened adds no row to features or labels.
C3_ProcessedIffWhitelisted ==
    \A k \in HandledEntries :
        /\ history[k].opened <=> (HasH5Suffix(dir[k].name) /\ Listed(dir[k].name))
        /\ ~history[k].opened =>
              /\ history[k].nfeat = FeatBefore(k)
              /\ history[k].nlab = LabBefore(k)

\* The scan is over; the listing held a listed .h5 file that added rows, a
\* .h5 file absent from the manifest, and a listed name without the suffix.
C3_Witness ==
    /\ ScanOver
    /\ \E k \in HandledEntries : Accepted(k) /\ history[k].nfeat = FeatBefore(k) + 2
    /\ \E k \in HandledEntries : HasH5Suffix(dir[k].name) /\ ~Listed(dir[k].name)
    /\ \E k \in HandledEntries : ~HasH5Suffix(dir[k].name) /\ Listed(dir[k].name)

\* The samples of each genre after the scan and augmentation.
Genres == {labels[i] : i \in 1..Len(labels)}
Samples(g) == Cardinality({i \in 1..Len(labels) : labels[i] = g})

\* No stage after the balancer has run, nothing was written or returned.
NothingAfterBalancer ==
    /\ pc \in {"encode", "balance", "fatal"}
    /\ features_resampled = <<>> /\ labels_resampled = <<>>
    /\ features_scaled = <<>> /\ features_selected = <<>>
    /\ labels_onehot = <<>>
    /\ artifact = Stale /\ dumps = 0

SameScaled(a, b) ==
    IF a.var = 0 \/ b.var = 0 THEN a.num = 0 /\ b.num = 0
    ELSE /\ (a.num >= 0) = (b.num >= 0)
         /\ a.num * a.num * b.var = b.num * b.num * a.var
SameMatrix(A, B) ==
    /\ Len(A) = Len(B)
    /\ \A r \in 1..Len(A) :
         /\ Len(A[r]) = Len(B[r])
         /\ \A c \in 1..Len(A[r]) : SameScaled(A[r][c], B[r][c])

\* C5: two calls on the same listing and manifest return identical
\* selected-feature matrices and identical label encodings.
C5_SameInputSameOutput ==
    (run = 2 /\ pc = "done") =>
        /\ SameMatrix(features_selected, prev.features)
        /\ labels_onehot = prev.labels
        /\ classes_ = prev.classes

\* C6: after a successful run the encoding is a bijection between the C
\* observed label strings and 0..C-1, and every row of the one-hot matrix has
\* width C, a single 1 at the position of the row's class id, 0 elsewhere.
C6_OneHotOfBijection ==
    pc \in {"dump", "return", "done"} =>
        LET C == Cardinality(Genres)
            Id(g) == CHOOSE n \in 0..(C - 1) : classes_[n + 1] = g
        IN /\ Len(classes_) = C
           /\ {classes_[n] : n \in 1..C} = Genres
           /\ \A i \in 1..Len(labels) :
                labels_encoded[i] \in 0..(C - 1) /\ labels_encoded[i] = Id(labels[i])
           /\ {labels_encoded[i] : i \in 1..Len(labels)} = 0..(C - 1)
           /\ Len(labels_onehot) = Len(labels_resampled)
           /\ \A i \in 1..Len(labels_onehot) :
                /\ Len(labels_onehot[i]) = C
                /\ labels_resampled[i] \in 0..(C - 1)
                /\ \A c \in 1..C :
                     labels_onehot[i][c] = IF c = labels_resampled[i] + 1 THEN 1 ELSE 0

\* A run returned with synthetic rows of the balancer among the one-hot rows.
C6_Witness ==
    /\ pc = "done"
    /\ Len(labels_onehot) > Len(labels)
    /\ Cardinality(Genres) = 2

\* C7 (as claimed): every run overwrites the artifact exactly once with the
\* encoder fitted in that run.
C7_EveryRunOverwrites ==
    pc \in {"done", "fatal"} => dumps = 1 /\ artifact = classes_

\* C7 (amended): every run that returns has overwritten the artifact exactly
\* once, with the encoder fitted in that run; a run that ends in the
\* balancer's error has not written it.
C7_ReturnedRunOverwrites ==
    /\ dumps <= 1
    /\ pc = "done" =>
         /\ dumps = 1
         /\ artifact = classes_
         /\ {classes_[n] : n \in 1..Len(classes_)} = Genres
    /\ pc = "fatal" => dumps = 0 /\ artifact = Stale

\* A run returned and the file no longer holds the earlier encoder.
C7_Witness == pc = "done" /\ artifact # Stale /\ Len(artifact) >= 2

\* C8: when extraction or the conversion to a numeric vector raises for a
\* file, the step of the loop that handles the file leaves features and
\* labels as they were and goes on to the next directory entry; the scan
\* ends only when every directory entry has been handled.
C8_FailedFileSkipped ==
    /\ [](ScanOver => Len(history) = Len(dir))
    /\ [][(/\ pc = "scan" /\ idx <= Len(dir)
           /\ HasH5Suffix(dir[idx].name) /\ Listed(dir[idx].name)
           /\ ~Extractable(dir[idx]))
          => (/\ features' = features
              /\ labels' = labels
              /\ idx' = idx + 1
              /\ pc' = "scan")]_vars

\* A file whose extraction failed was handled between two accepted files.
C8_Witness ==
    \E k \in HandledEntries :
        /\ k > 1 /\ k < Len(history)
        /\ history[k].opened /\ history[k].raised /\ ~Extractable(dir[k])
        /\ Accepted(k - 1) /\ Accepted(k + 1)
        /\ history[k + 1].nfeat = history[k].nfeat + 2

\* The first handled entry that was opened and is extractable (0 if none
\* among the first k).
FirstExtracted(k) ==
    LET S == {j \in 1..k : history[j].opened /\ Extractable(dir[j])}
    IN IF S = {} THEN 0 ELSE CHOOSE j \in S : \A i \in S : j <= i

\* The first accepted entry (0 if none among the first k).
FirstAccepted(k) ==
    LET S == {j \in 1..k : Accepted(j)}
    IN IF S = {} THEN 0 ELSE CHOOSE j \in S : \A i \in S : j <= i

\* v padded with zeros on the right, or cut on the right, to length L.
IsNormalized(row, v, L) ==
    /\ Len(row) = L
    /\ \A i \in 1..L : row[i] = IF i <= Len(v) THEN v[i] ELSE 0

\* C9: once the canonical length L is set every stored vector has length L;
\* the vector stored for an extracted v is v followed by zeros when v is
\* shorter than L, the first L entries of v when it is longer, v itself when
\* its length is L; the augmented twin has length L.
C9_StoredVectorsNormalized ==
    /\ \A r \in 1..Len(features) : Len(features[r]) = feature_length
    /\ \A k \in HandledEntries :
         (history[k].opened /\ Extractable(dir[k])) =>
           /\ history[k].nfeat > FeatBefore(k)
           /\ IsNormalized(features[FeatBefore(k) + 1], RawVector(dir[k]), feature_length)
           /\ Len(RawVector(dir[k])) = feature_length =>
                features[FeatBefore(k) + 1] = RawVector(dir[k])

\* A shorter vector and a longer vector were both stored after L was set, each
\* with its twin.
C9_Witness ==
    /\ \E k \in HandledEntries :
         Accepted(k) /\ Len(RawVector(dir[k])) < feature_length
    /\ \E k \in HandledEntries :
         Accepted(k) /\ Len(RawVector(dir[k])) > feature_length

\* C10 (as claimed): L is unset until the first accepted file, is then the
\* length of that file's vector, and never changes; a file skipped by the
\* except clause never sets L.
C10_LengthOfFirstAccepted ==
    /\ \A k \in HandledEntries :
         history[k].flen =
            IF FirstAccepted(k) = 0 THEN NoLength
            ELSE Len(RawVector(dir[FirstAccepted(k)]))
    /\ feature_length = LenBefore(Len(history) + 1)

\* C10 (amended): L is unset until the first file whose extraction and
\* conversion succeed, is then the length of that file's vector, and never
\* changes, whether or not that file is skipped later in the try block.
C10_LengthOfFirstExtracted ==
    /\ \A k \in HandledEntries :
         history[k].flen =
            IF FirstExtracted(k) = 0 THEN NoLength
            ELSE Len(RawVector(dir[FirstExtracted(k)]))
    /\ feature_length = LenBefore(Len(history) + 1)

\* L stayed unset over a file whose extraction failed, was set by a file that
\* the except clause then skipped, and was kept over a later accepted file
\* with a vector of another length.
C10_Witness ==
    \E k \in HandledEntries :
        /\ k > 1 /\ k < Len(history)
        /\ history[k - 1].opened /\ history[k - 1].flen = NoLength
        /\ history[k].raised /\ history[k].flen = Len(RawVector(dir[k]))
        /\ Accepted(k + 1)
        /\ Len(RawVector(dir[k + 1])) # history[k + 1].flen

====
